---- MODULE Spec2Model ----
(***************************************************************************)
(* Smart parking platform: event ingestion and zone occupancy              *)
(* (app/services/__init__.py, app/api/events.py, app/api/zones.py), the    *)
(* request-scoped database session (app/core/database.py) and the          *)
(* WebSocket connection manager (app/api/websocket.py), the occupancy      *)
(* snapshots and the OccupancyAnalyzer (app/ml/occupancy_analyzer.py).     *)
(***************************************************************************)
EXTENDS Integers, Sequences, FiniteSets, TLC

\* ------------------------------------------------------------------ bounds
MaxZones == 2      \* zone rows the table may hold
MaxSpots == 2      \* largest total_spots a request supplies
MaxEvents == 2     \* rows the parking_events table may hold
MaxSnapshots == 3  \* rows the occupancy_snapshots table may hold
MaxClock == 1      \* ticks the wall clock may advance
MaxSeries == 3     \* longest series handed to compute_ema
MaxValues == 4     \* longest series handed to detect_anomalies
MaxStamps == 3     \* most timestamps handed to estimate_arrival_rate
MaxRates == 2      \* longest short history handed to forecast_occupancy
MaxHorizon == 2    \* largest horizon_hours handed to forecast_occupancy
MaxSamples == 3    \* most (rate, timestamp) pairs of a free find_peak_hours input
MaxTopN == 3       \* largest top_n handed to find_peak_hours
MaxCalls == 3      \* most analyzer calls of one session
NumSessions == 2   \* concurrent create_event requests (one session each)
NumSockets == 2    \* WebSocket connections over the lifetime of the hub

\* ------------------------------------------------------------- input sets
ZoneIdInputs == 1..(MaxZones + 1)            \* zone_id of a request body
EventTypeInputs == {"entry", "exit", "other"} \* event_type of a request body
CreateTotals == 1..MaxSpots                  \* ZoneCreate.total_spots
UpdateTotals == (-1)..MaxSpots               \* ZoneUpdate.total_spots
Sessions == 1..NumSessions
WebSockets == 1..NumSockets

VARIABLES
    zones,     \* parking_zones table (committed): sequence indexed by zone id
    events,    \* parking_events table (committed): sequence in insert order
    seeded,    \* occupied_spots each zone row was inserted with
    sess,      \* per request: the AsyncSession and the handler's position
    last,      \* the last HTTP request handled and its response status
    active_connections,  \* ConnectionManager.active_connections
    hs,        \* per WebSocket: where its parking_websocket handler stands
    bc,        \* the ConnectionManager.broadcast call in progress (or the last one)
    wire,      \* the send_json call made by the last step, and whether it succeeded
    zone_ids,  \* per WebSocket: the handler's local zone_ids (the list of its last
               \* subscribe request; empty while none was made)
    is_active, \* parking_zones.is_active, indexed by zone id
    snapshots, \* occupancy_snapshots table: sequence in insert order
    now,       \* datetime.now(timezone.utc), in ticks
    ml         \* the last OccupancyAnalyzer call: its name, arguments and result

storeVars == <<zones, events, seeded, sess, last, is_active, snapshots, now>>
hubVars == <<active_connections, hs, bc, wire, zone_ids>>
vars == <<zones, events, seeded, sess, last, active_connections, hs, bc, wire,
          zone_ids, is_active, snapshots, now, ml>>
histVars == <<is_active, snapshots, now>>

\* --------------------------------------------------------------- helpers
Min(a, b) == IF a <= b THEN a ELSE b
Max(a, b) == IF a >= b THEN a ELSE b

\* ParkingZone row (models/parking.py): the columns the services read and write.
ParkingZone(total, occupied) ==
    [total_spots |-> total, occupied_spots |-> occupied]

\* ParkingEvent row (models/parking.py).
ParkingEvent(zone_id, event_type) ==
    [zone_id |-> zone_id, event_type |-> event_type]

\* A schema whose event_type has no pattern: any string passes.
ParkingEventCreate_any(event_type) == TRUE

\* ParkingEventCreate: event_type = Field(..., pattern="^(entry|exit)$").
ParkingEventCreate_valid(event_type) == event_type \in {"entry", "exit"}

\* ParkingService.get_zone: the row with that id, or None.
ZoneExists(zs, zone_id) == zone_id \in DOMAIN zs

\* The occupancy update without its min/max clamps.
NewOccupied_noclamp(event_type, occupied, total) ==
    IF event_type = "entry" THEN occupied + 1
    ELSE IF event_type = "exit" THEN occupied - 1
    ELSE occupied

\* record_event, the occupancy update:
\*   entry: min(occupied + 1, total);  exit: max(occupied - 1, 0);
\*   any other event_type: neither branch runs.
NewOccupied(event_type, occupied, total) ==
    IF event_type = "entry" THEN Min(occupied + 1, total)
    ELSE IF event_type = "exit" THEN Max(occupied - 1, 0)
    ELSE occupied

IdleSession == [pc |-> "idle", zone_id |-> 0, event_type |-> "none",
                occupied |-> 0, total |-> 0]
NoRequest == [op |-> "none", status |-> 0]
Response(op, status) == [op |-> op, status |-> status]

\* round(n / d) for d > 0, ties to even (Python's round); \div is floor division.
RoundHalfEven(n, d) ==
    LET q == n \div d
        r == n % d
    IN IF 2 * r < d THEN q
       ELSE IF 2 * r > d THEN q + 1
       ELSE IF q % 2 = 0 THEN q ELSE q + 1

\* broadcast_zone_update: the occupancy_rate it computes, in hundredths of a
\* percent: round(occupied / total * 100, 2) if total > 0 else 0.
BroadcastRate(occupied, total) ==
    IF total > 0 THEN RoundHalfEven(occupied * 10000, total) ELSE 0

\* The message envelope {type, data, timestamp}; the timestamp is not modelled.
Envelope(type, data) == [type |-> type, data |-> data]

\* broadcast_zone_update(zone_code, occupied, total): the message it builds.
ZoneUpdateMessage(zone_code, occupied, total) ==
    Envelope("zone_update",
             [zone_code |-> zone_code, occupied_spots |-> occupied,
              total_spots |-> total, occupancy_rate |-> BroadcastRate(occupied, total)])

\* broadcast_parking_event(event_type, zone_code, plate): the message it builds.
EventMessage(event_type, zone_code, plate) ==
    Envelope("event",
             [event_type |-> event_type, zone_code |-> zone_code,
              license_plate |-> plate])

\* An acknowledgement that always reports the empty list.
SubscribedMessage_empty(zones_arg) == Envelope("subscribed", [zones |-> <<>>])

ConnectedMessage == Envelope("connected", [message |-> "Connected to parking feed"])
HeartbeatMessage == Envelope("heartbeat", [empty |-> TRUE])
SubscribedMessage(zones_arg) == Envelope("subscribed", [zones |-> zones_arg])

\* Messages a caller hands to the broadcast helpers.
BroadcastInputs ==
    { ZoneUpdateMessage(1, 1, MaxSpots), EventMessage("entry", 1, "none") }

NoSend == [to |-> 0, msg |-> Envelope("none", [empty |-> TRUE]), ok |-> FALSE]
Send(w, msg, ok) == [to |-> w, msg |-> msg, ok |-> ok]

IdleBroadcast ==
    [pc |-> "idle", message |-> Envelope("none", [empty |-> TRUE]), live |-> {},
     current |-> 0, todo |-> {}, size |-> 0, dead |-> {}, delivered |-> {},
     outcome |-> "none"]

\* disconnect written with set.remove: KeyError when the socket is not in the set.
manager_disconnect_remove(connections, w) ==
    [set |-> connections \ {w}, raised |-> w \notin connections]

\* disconnect that empties the set.
manager_disconnect_clear(connections, w) ==
    [set |-> {}, raised |-> FALSE]

\* ConnectionManager.disconnect: active_connections.discard(websocket).
\* The result is the set afterwards and whether the call raised.
manager_disconnect(connections, w) ==
    [set |-> connections \ {w}, raised |-> FALSE]

\* send_personal that swallows the exception and keeps the socket.
send_personal_keep(connections, w, ok) == connections

\* ConnectionManager.send_personal: a failed send_json discards the socket,
\* the exception is swallowed.
send_personal(connections, w, ok) ==
    IF ok THEN connections ELSE connections \ {w}

\* A set iterator in progress, after discard(w) on the set it walks: an
\* element removed before it was reached is never yielded.
IterAfterDiscard(b, w) == [b EXCEPT !.todo = @ \ {w}]
\* ... and after add(w): the new element lands before or after the cursor.
IterAfterAdd(b, w, ahead) ==
    IF b.pc = "sending" /\ ahead THEN [b EXCEPT !.todo = @ \cup {w}] ELSE b

\* No OccupancyAnalyzer call made yet.
NoCall == [fn |-> "none"]

\* ------------------------------------------------------------------ Init
\* The tables after startup: the seeder inserts each zone with
\* occupied_spots = random.randint(0, total_spots) (or no seeding outside
\* development); no events yet.
SeedStates ==
    UNION { [1..n -> { ParkingZone(t, o) : t \in CreateTotals, o \in 0..MaxSpots }]
            : n \in 0..MaxZones }

InitServer ==
    /\ zones \in { zs \in SeedStates :
                     \A i \in DOMAIN zs : zs[i].occupied_spots <= zs[i].total_spots }
    /\ seeded = [i \in DOMAIN zones |-> zones[i].occupied_spots]
    /\ events = <<>>
    /\ sess = [s \in Sessions |-> IdleSession]
    /\ last = NoRequest
    /\ active_connections = {}
    /\ hs = [w \in WebSockets |-> "new"]
    /\ bc = IdleBroadcast
    /\ wire = NoSend
    /\ zone_ids = [w \in WebSockets |-> <<>>]
    /\ is_active = [i \in DOMAIN zones |-> TRUE]
    /\ snapshots = <<>>
    /\ now = 0

Init == InitServer /\ ml = NoCall

\* record_event without its "if not zone" check: the event is added to the
\* session and the first read of the missing zone raises AttributeError.
record_event_unchecked(zs, evs, zone_id, event_type) ==
    IF ~ZoneExists(zs, zone_id)
    THEN [raised |-> "AttributeError", zones |-> zs,
          events |-> Append(evs, ParkingEvent(zone_id, event_type))]
    ELSE [raised |-> "none",
          zones |-> [zs EXCEPT ![zone_id].occupied_spots =
                       NewOccupied(event_type, zs[zone_id].occupied_spots,
                                   zs[zone_id].total_spots)],
          events |-> Append(evs, ParkingEvent(zone_id, event_type))]

\* record_event counting on one counter shared by all zones: the step is
\* applied to every row.
record_event_shared(zs, evs, zone_id, event_type) ==
    IF ~ZoneExists(zs, zone_id)
    THEN [raised |-> "ValueError", zones |-> zs, events |-> evs]
    ELSE [raised |-> "none",
          zones |-> [i \in DOMAIN zs |->
                       [zs[i] EXCEPT !.occupied_spots =
                           NewOccupied(event_type, zs[i].occupied_spots,
                                       zs[i].total_spots)]],
          events |-> Append(evs, ParkingEvent(zone_id, event_type))]

\* record_event that logs an event only when it changed the occupancy.
record_event_skip_clamped(zs, evs, zone_id, event_type) ==
    IF ~ZoneExists(zs, zone_id)
    THEN [raised |-> "ValueError", zones |-> zs, events |-> evs]
    ELSE LET new == NewOccupied(event_type, zs[zone_id].occupied_spots,
                                zs[zone_id].total_spots)
         IN [raised |-> "none",
             zones |-> [zs EXCEPT ![zone_id].occupied_spots = new],
             events |-> IF new = zs[zone_id].occupied_spots THEN evs
                        ELSE Append(evs, ParkingEvent(zone_id, event_type))]

\* ------------------------------------------------- ParkingService.record_event
\* What the call leaves in the session (zs, evs: the tables as the session
\* sees them) and the exception it raises, if any.
record_event(zs, evs, zone_id, event_type) ==
    IF ~ZoneExists(zs, zone_id)
    THEN [raised |-> "ValueError", zones |-> zs, events |-> evs]
    ELSE [raised |-> "none",
          zones |-> [zs EXCEPT ![zone_id].occupied_spots =
                       NewOccupied(event_type, zs[zone_id].occupied_spots,
                                   zs[zone_id].total_spots)],
          events |-> Append(evs, ParkingEvent(zone_id, event_type))]

\* ------------------------------------------------- POST /events (one request)
\* create_event -> record_event -> get_db, run with no other request in
\* between.  ValueError becomes HTTPException(400); get_db rolls back on any
\* exception and commits otherwise.
create_event(zone_id, event_type) ==
    IF ~ParkingEventCreate_valid(event_type)
    THEN \* request validation fails: 422, the handler never runs
         /\ last' = Response("create_event", 422)
         /\ UNCHANGED <<zones, events, seeded, sess, histVars, hubVars, ml>>
    ELSE LET r == record_event(zones, events, zone_id, event_type)
         IN IF r.raised = "ValueError"
            THEN /\ last' = Response("create_event", 400)
                 /\ UNCHANGED <<zones, events, seeded, sess, histVars, hubVars, ml>>
            ELSE IF r.raised # "none"
            THEN /\ last' = Response("create_event", 500)
                 /\ UNCHANGED <<zones, events, seeded, sess, histVars, hubVars, ml>>
            ELSE /\ Len(events) < MaxEvents
                 /\ zones' = r.zones
                 /\ events' = r.events
                 /\ last' = Response("create_event", 201)
                 /\ UNCHANGED <<seeded, sess, histVars, hubVars, ml>>

\* ------------------------------------------------- POST /zones
\* ZoneCreate: total_spots gt 0; occupied_spots takes the column default 0.
create_zone(total) ==
    /\ Len(zones) < MaxZones
    /\ zones' = Append(zones, ParkingZone(total, 0))
    /\ seeded' = Append(seeded, 0)
    /\ is_active' = Append(is_active, TRUE)
    /\ last' = Response("create_zone", 201)
    /\ UNCHANGED <<events, sess, snapshots, now, hubVars, ml>>

\* ------------------------------------------------- PUT /zones/{zone_id}
\* ZoneUpdate.total_spots is Optional[int] with no constraint; update_zone
\* setattr's every field that was set.
update_zone(zone_id, total) ==
    /\ IF ~ZoneExists(zones, zone_id)
       THEN /\ last' = Response("update_zone", 404)
            /\ UNCHANGED <<zones, events, seeded, sess, histVars, hubVars, ml>>
       ELSE /\ zones' = [zones EXCEPT ![zone_id].total_spots = total]
            /\ last' = Response("update_zone", 200)
            /\ UNCHANGED <<events, seeded, sess, histVars, hubVars, ml>>

\* ------------------------------------------------- DELETE /zones/{zone_id}
\* delete_zone: db.delete(zone), flushed by get_db's commit.  ParkingZone.events
\* has no delete cascade, so the flush first sets zone_id of the zone's events
\* to NULL; the column is NOT NULL (as is occupancy_snapshots.zone_id, a
\* foreign key with no ON DELETE), so with an event or a snapshot of the zone
\* the commit raises IntegrityError and get_db rolls back; the status the
\* client sees then depends on whether the response had left already.
\* The tables are sequences indexed by id: the newest zone is the one the
\* model can take out.
delete_zone(zone_id) ==
    IF ~ZoneExists(zones, zone_id)
    THEN /\ last' = Response("delete_zone", 404)
         /\ UNCHANGED <<zones, events, seeded, sess, histVars, hubVars, ml>>
    ELSE IF \/ \E i \in DOMAIN events : events[i].zone_id = zone_id
            \/ \E i \in DOMAIN snapshots : snapshots[i].zone_id = zone_id
    THEN /\ \E status \in {204, 500} : last' = Response("delete_zone", status)
         /\ UNCHANGED <<zones, events, seeded, sess, histVars, hubVars, ml>>
    ELSE /\ zone_id = Len(zones)
         /\ zones' = SubSeq(zones, 1, Len(zones) - 1)
         /\ seeded' = SubSeq(seeded, 1, Len(seeded) - 1)
         /\ is_active' = SubSeq(is_active, 1, Len(is_active) - 1)
         /\ last' = Response("delete_zone", 204)
         /\ UNCHANGED <<events, sess, snapshots, now, hubVars, ml>>

\* PUT /zones/{zone_id} with only is_active set in the body.
update_zone_is_active(zone_id, active) ==
    /\ IF ~ZoneExists(zones, zone_id)
       THEN /\ last' = Response("update_zone", 404)
            /\ UNCHANGED is_active
       ELSE /\ is_active' = [is_active EXCEPT ![zone_id] = active]
            /\ last' = Response("update_zone", 200)
    /\ UNCHANGED <<zones, events, seeded, sess, snapshots, now, hubVars, ml>>

\* ParkingZone.occupancy_rate, in hundredths of a percent:
\* 0.0 if total_spots == 0 else round(occupied_spots / total_spots * 100, 2).
occupancy_rate(zone) ==
    IF zone.total_spots = 0 THEN 0
    ELSE IF zone.total_spots > 0
    THEN RoundHalfEven(zone.occupied_spots * 10000, zone.total_spots)
    ELSE RoundHalfEven((0 - zone.occupied_spots) * 10000, 0 - zone.total_spots)

\* OccupancySnapshot row (models/parking.py); timestamp takes its column
\* default, datetime.now(timezone.utc) at the INSERT.
OccupancySnapshot(zone_id, zone, timestamp) ==
    [zone_id |-> zone_id, occupied_spots |-> zone.occupied_spots,
     total_spots |-> zone.total_spots, occupancy_rate |-> occupancy_rate(zone),
     timestamp |-> timestamp]

\* list_zones without its is_active filter.
list_zones_all(active, from) == [i \in 1..Len(active) |-> i]

\* list_zones(active_only=True): the ids of the active zones, in the order of
\* the query (zone_code order, here the order of the ids).
RECURSIVE list_zones(_, _)
list_zones(active, from) ==
    IF from > Len(active) THEN <<>>
    ELSE IF active[from] THEN <<from>> \o list_zones(active, from + 1)
    ELSE list_zones(active, from + 1)

\* ------------------------------------- ParkingService.take_occupancy_snapshot
\* One OccupancySnapshot is added for each zone list_zones returns, and the
\* session is flushed (and committed by its owner).
take_occupancy_snapshot ==
    LET ids == list_zones(is_active, 1)
    IN /\ Len(snapshots) + Len(ids) <= MaxSnapshots
       /\ snapshots' = snapshots \o
              [k \in 1..Len(ids) |-> OccupancySnapshot(ids[k], zones[ids[k]], now)]
       /\ last' = Response("take_occupancy_snapshot", 0)
       /\ UNCHANGED <<zones, events, seeded, sess, is_active, now, hubVars, ml>>

\* The wall clock advances.
tick ==
    /\ now < MaxClock
    /\ now' = now + 1
    /\ UNCHANGED <<zones, events, seeded, sess, last, is_active, snapshots, hubVars, ml>>

\* Zones changing between snapshots: entries on zone 1, and zones switched
\* on and off.
SnapNext ==
    \/ create_event(1, "entry")
    \/ \E z \in ZoneIdInputs, a \in BOOLEAN : update_zone_is_active(z, a)
    \/ take_occupancy_snapshot
    \/ tick

StoreNext ==
    \/ \E z \in ZoneIdInputs, k \in EventTypeInputs : create_event(z, k)
    \/ \E t \in CreateTotals : create_zone(t)
    \/ \E z \in ZoneIdInputs, t \in UpdateTotals : update_zone(z, t)

\* ------------------------------------- POST /events, requests overlapping
\* Each request has its own AsyncSession (get_db).  record_event first awaits
\* get_zone (a SELECT of the committed row); the assignment to
\* zone.occupied_spots is flushed as UPDATE ... SET occupied_spots = <value>
\* and committed by get_db when the handler returns.
load(s, zone_id, event_type) ==
    /\ sess[s].pc = "idle"
    /\ Len(events) + Cardinality({x \in Sessions : sess[x].pc = "loaded"}) < MaxEvents
    /\ IF ~ZoneExists(zones, zone_id)
       THEN /\ last' = Response("create_event", 400)
            /\ UNCHANGED sess
       ELSE /\ sess' = [sess EXCEPT ![s] =
                          [pc |-> "loaded", zone_id |-> zone_id,
                           event_type |-> event_type,
                           occupied |-> zones[zone_id].occupied_spots,
                           total |-> zones[zone_id].total_spots]]
            /\ UNCHANGED last
    /\ UNCHANGED <<zones, events, seeded, histVars, hubVars, ml>>

\* flush + commit: the INSERT of the event, and the UPDATE of occupied_spots
\* when the value assigned differs from the value loaded.
commit(s) ==
    /\ sess[s].pc = "loaded"
    /\ LET r == sess[s]
           new == NewOccupied(r.event_type, r.occupied, r.total)
       IN /\ zones' = IF new # r.occupied
                      THEN [zones EXCEPT ![r.zone_id].occupied_spots = new]
                      ELSE zones
          /\ events' = Append(events, ParkingEvent(r.zone_id, r.event_type))
    /\ sess' = [sess EXCEPT ![s] = IdleSession]
    /\ last' = Response("create_event", 201)
    /\ UNCHANGED <<seeded, histVars, hubVars, ml>>

ConcNext ==
    \/ \E s \in Sessions, z \in ZoneIdInputs, k \in {"entry", "exit"} : load(s, z, k)
    \/ \E s \in Sessions : commit(s)

\* connect that accepts the socket and never adds it to the set.
connect_without_add(w, ahead) ==
    /\ hs[w] = "new"
    /\ hs' = [hs EXCEPT ![w] = "connected"]
    /\ wire' = NoSend
    /\ UNCHANGED <<active_connections, bc, zone_ids, storeVars, ml>>

\* ------------------------------------------------- /ws/parking, one handler
\* manager.connect: accept, then active_connections.add(websocket).
connect(w, ahead) ==
    /\ hs[w] = "new"
    /\ active_connections' = active_connections \cup {w}
    /\ hs' = [hs EXCEPT ![w] = "connected"]
    /\ bc' = IterAfterAdd(bc, w, ahead)
    /\ wire' = NoSend
    /\ UNCHANGED <<zone_ids, storeVars, ml>>

\* The initial confirmation: send_personal(websocket, {"type": "connected"}).
confirm(w, ok) ==
    /\ hs[w] = "connected"
    /\ active_connections' = send_personal(active_connections, w, ok)
    /\ hs' = [hs EXCEPT ![w] = "listening"]
    /\ bc' = IF ok THEN bc ELSE IterAfterDiscard(bc, w)
    /\ wire' = Send(w, ConnectedMessage, ok)
    /\ UNCHANGED <<zone_ids, storeVars, ml>>

\* wait_for(receive_text, 30 s) times out: a heartbeat, and the loop goes on.
heartbeat(w, ok) ==
    /\ hs[w] = "listening"
    /\ active_connections' = send_personal(active_connections, w, ok)
    /\ bc' = IF ok THEN bc ELSE IterAfterDiscard(bc, w)
    /\ wire' = Send(w, HeartbeatMessage, ok)
    /\ UNCHANGED <<hs, zone_ids, storeVars, ml>>

\* A text frame arrives.  text is what json.loads makes of it:
\*   "subscribe": an object with type subscribe (zones: its list);
\*   "object":    any other object;  "invalid": not a JSON object.
InboundTexts == {"subscribe", "object", "invalid"}
ZoneLists == {<<>>, <<1>>}

\* A handler that treats every message other than subscribe as an error.
receive_strict(w, text, zs, ok) ==
    /\ hs[w] = "listening"
    /\ IF text = "subscribe"
       THEN /\ active_connections' = send_personal(active_connections, w, ok)
            /\ bc' = IF ok THEN bc ELSE IterAfterDiscard(bc, w)
            /\ wire' = Send(w, SubscribedMessage(zs), ok)
            /\ zone_ids' = [zone_ids EXCEPT ![w] = zs]
            /\ UNCHANGED hs
       ELSE LET r == manager_disconnect(active_connections, w)
            IN /\ active_connections' = r.set
               /\ hs' = [hs EXCEPT ![w] = IF r.raised THEN "crashed" ELSE "ended"]
               /\ bc' = IterAfterDiscard(bc, w)
               /\ wire' = NoSend
               /\ UNCHANGED zone_ids
    /\ UNCHANGED <<storeVars, ml>>

receive(w, text, zs, ok) ==
    /\ hs[w] = "listening"
    /\ IF text = "subscribe"
       THEN /\ active_connections' = send_personal(active_connections, w, ok)
            /\ bc' = IF ok THEN bc ELSE IterAfterDiscard(bc, w)
            /\ wire' = Send(w, SubscribedMessage(zs), ok)
            /\ zone_ids' = [zone_ids EXCEPT ![w] = zs]
            /\ UNCHANGED hs
       ELSE IF text = "object"
       THEN /\ wire' = NoSend
            /\ UNCHANGED <<active_connections, hs, bc, zone_ids>>
       ELSE \* json.loads or message.get raises: except Exception -> disconnect
            LET r == manager_disconnect(active_connections, w)
            IN /\ active_connections' = r.set
               /\ hs' = [hs EXCEPT ![w] = IF r.raised THEN "crashed" ELSE "ended"]
               /\ bc' = IterAfterDiscard(bc, w)
               /\ wire' = NoSend
               /\ UNCHANGED zone_ids
    /\ UNCHANGED <<storeVars, ml>>

\* The client closes: receive_text raises WebSocketDisconnect -> disconnect.
client_close(w) ==
    /\ hs[w] = "listening"
    /\ LET r == manager_disconnect(active_connections, w)
       IN /\ active_connections' = r.set
          /\ hs' = [hs EXCEPT ![w] = IF r.raised THEN "crashed" ELSE "ended"]
    /\ bc' = IterAfterDiscard(bc, w)
    /\ wire' = NoSend
    /\ UNCHANGED <<zone_ids, storeVars, ml>>

\* ------------------------------------------------- ConnectionManager.broadcast
\* dead = set(); for conn in self.active_connections: the iterator is made
\* and its first element taken; the task then waits in send_json.
broadcast(message) ==
    /\ bc.pc = "idle"
    /\ IF active_connections = {}
       THEN bc' = [IdleBroadcast EXCEPT !.message = message, !.outcome = "returned"]
       ELSE \E c \in active_connections :
               bc' = [pc |-> "sending", message |-> message,
                      live |-> active_connections, current |-> c,
                      todo |-> active_connections \ {c},
                      size |-> Cardinality(active_connections),
                      dead |-> {}, delivered |-> {}, outcome |-> "none"]
    /\ wire' = NoSend
    /\ UNCHANGED <<active_connections, hs, zone_ids, storeVars, ml>>

\* send_json to the current connection completes (ok) or raises (dead.add);
\* the for statement then asks the iterator for the next element: a set whose
\* size changed raises RuntimeError out of broadcast; with none left,
\* active_connections -= dead and broadcast returns.
send_done(ok) ==
    /\ bc.pc = "sending"
    /\ LET c == bc.current
           dead1 == IF ok THEN bc.dead ELSE bc.dead \cup {c}
           deliv1 == IF ok THEN bc.delivered \cup {c} ELSE bc.delivered
           b1 == [bc EXCEPT !.dead = dead1, !.delivered = deliv1]
       IN /\ wire' = Send(c, bc.message, ok)
          /\ IF Cardinality(active_connections) # bc.size
             THEN /\ bc' = [b1 EXCEPT !.pc = "idle", !.current = 0, !.todo = {},
                                      !.outcome = "RuntimeError"]
                  /\ UNCHANGED active_connections
             ELSE IF bc.todo = {}
             THEN /\ bc' = [b1 EXCEPT !.pc = "idle", !.current = 0,
                                      !.outcome = "returned"]
                  /\ active_connections' = active_connections \ dead1
             ELSE /\ \E n \in bc.todo :
                        bc' = [b1 EXCEPT !.current = n, !.todo = @ \ {n}]
                  /\ UNCHANGED active_connections
    /\ UNCHANGED <<hs, zone_ids, storeVars, ml>>

HubNext ==
    \/ \E w \in WebSockets, ahead \in BOOLEAN : connect(w, ahead)
    \/ \E w \in WebSockets, ok \in BOOLEAN : confirm(w, ok)
    \/ \E w \in WebSockets, ok \in BOOLEAN : heartbeat(w, ok)
    \/ \E w \in WebSockets, t \in InboundTexts, ok \in BOOLEAN :
          receive(w, t, <<>>, ok)
    \/ \E w \in WebSockets : client_close(w)
    \/ \E m \in BroadcastInputs : broadcast(m)
    \/ \E ok \in BOOLEAN : send_done(ok)

\* The connection handlers alone (no broadcast in progress), with subscribe
\* requests carrying any of ZoneLists.
FeedNext ==
    \/ \E w \in WebSockets, ahead \in BOOLEAN : connect(w, ahead)
    \/ \E w \in WebSockets, ok \in BOOLEAN : confirm(w, ok)
    \/ \E w \in WebSockets, ok \in BOOLEAN : heartbeat(w, ok)
    \/ \E w \in WebSockets, t \in InboundTexts, zs \in ZoneLists, ok \in BOOLEAN :
          receive(w, t, zs, ok)
    \/ \E w \in WebSockets : client_close(w)

\* ===================================================================
\* OccupancyAnalyzer (app/ml/occupancy_analyzer.py).  Floats are modelled
\* as exact rationals.
\* ===================================================================
\* self.ema_alpha = 0.3, in tenths.
ema_alpha == 3

\* An optional float argument: <<>> is None, <<n>> the value n (for alpha,
\* n tenths).
AlphaInputs == {<<>>, <<0>>, <<3>>, <<5>>, <<10>>}
EmaValues == {0, 10, 20}
EmaSeries == UNION { [1..n -> EmaValues] : n \in 0..MaxSeries }

RECURSIVE Pow10(_)
Pow10(n) == IF n = 0 THEN 1 ELSE 10 * Pow10(n - 1)

\* a = alpha or self.ema_alpha: None and 0.0 are both falsy.
EffectiveAlpha(alpha) ==
    IF alpha = <<>> \/ alpha[1] = 0 THEN ema_alpha ELSE alpha[1]

\* The loop of compute_ema after k elements: ema as a list of fractions
\* num/den, element t (from 1) over den = 10^(t-1);
\* ema.append(a * data[i] + (1 - a) * ema[-1]).
RECURSIVE ema_loop(_, _, _)
ema_loop(data, a, k) ==
    IF k = 1 THEN << [num |-> data[1], den |-> 1] >>
    ELSE LET ema == ema_loop(data, a, k - 1)
         IN Append(ema, [num |-> a * data[k] * Pow10(k - 2) + (10 - a) * ema[k - 1].num,
                         den |-> Pow10(k - 1)])

\* OccupancyAnalyzer.compute_ema(data, alpha).
compute_ema(data, alpha) ==
    LET a == EffectiveAlpha(alpha)
    IN IF data = <<>> THEN <<>> ELSE ema_loop(data, a, Len(data))

\* A call of compute_ema and what it returned.
compute_ema_call(data, alpha) ==
    /\ ml' = [fn |-> "compute_ema", data |-> data, alpha |-> alpha,
              result |-> compute_ema(data, alpha)]
    /\ UNCHANGED <<storeVars, hubVars>>

EmaNext == \E data \in EmaSeries, alpha \in AlphaInputs : compute_ema_call(data, alpha)

\* ------------------------------------------- OccupancyAnalyzer.detect_anomalies
\* Values are whole multiples of 1e-6, the floor of the standard deviation.
\* self.anomaly_threshold = 2.5 and the severity cut-offs 4.0 and 3.0, in tenths.
anomaly_threshold == 25
severity_high == 40
severity_medium == 30
\* std = max(std, 1e-6), in units of the values.
std_floor == 1
\* if len(window) < 3: the result without a baseline.
min_window == 3

AnomalyValues == {0, 1, 2, 4, 5, 7}
AnomalySeries == UNION { [1..n -> AnomalyValues] : n \in 0..MaxValues }
WindowSizes == {0, 1, 2}

RECURSIVE SeqSum(_)
SeqSum(seq) == IF seq = <<>> THEN 0 ELSE seq[1] + SeqSum(Tail(seq))
RECURSIVE SeqSumSq(_)
SeqSumSq(seq) == IF seq = <<>> THEN 0 ELSE seq[1] * seq[1] + SeqSumSq(Tail(seq))
Abs(x) == IF x >= 0 THEN x ELSE 0 - x
RECURSIVE isqrt_from(_, _)
isqrt_from(n, r) == IF (r + 1) * (r + 1) > n THEN r ELSE isqrt_from(n, r + 1)
isqrt(n) == isqrt_from(n, 0)

\* A baseline that takes the whole window, the current value included.
window_baseline_all(window) == window

\* window[:-1]: the window without the current value.
window_baseline(window) == SubSeq(window, 1, Len(window) - 1)

\* np.mean and np.std of a baseline b of n values, kept exact:
\* mean = sum / n and std = sqrt(nvar) / n with nvar = n * sumsq - sum^2;
\* max(std, 1e-6) is sqrt(denom2) / n.
BaselineStats(b) ==
    LET n == Len(b)
        sum == SeqSum(b)
        nvar == n * SeqSumSq(b) - sum * sum
    IN [n |-> n, sum |-> sum,
        denom2 |-> Max(nvar, n * n * std_floor * std_floor)]

\* The comparison written with >= : a z-score on the cut-off passes it.
ZExceeds_ge(x, st, cut) ==
    100 * (st.n * x - st.sum) * (st.n * x - st.sum) >= cut * cut * st.denom2

\* |z| > cut / 10 for z = (x - mean) / std = (n * x - sum) / sqrt(denom2).
ZExceeds(x, st, cut) ==
    100 * (st.n * x - st.sum) * (st.n * x - st.sum) > cut * cut * st.denom2

\* The magnitude of the z-score, its sign dropped.
ZScoreRounded_abs(x, st) ==
    RoundHalfEven(Abs(st.n * x - st.sum) * 10000, isqrt(st.denom2))

\* round(float(z_score), 4), in units of 1e-4 (denom2 a perfect square, as
\* it is for every baseline of at most two values).
ZScoreRounded(x, st) == RoundHalfEven((st.n * x - st.sum) * 10000, isqrt(st.denom2))

\* round(float(mean), 2), in units of the values (0.01 is 10000 of them).
MeanRounded(st) == RoundHalfEven(st.sum, st.n * 10000) * 10000

AnomalyResult(is_anomaly, z_score, expected_value, actual_value, severity) ==
    [is_anomaly |-> is_anomaly, z_score |-> z_score,
     expected_value |-> expected_value, actual_value |-> actual_value,
     severity |-> severity]

\* The body of the loop of detect_anomalies for index i (from 0).
detect_at(values, window_size, i) ==
    LET start == Max(0, i - window_size)
        window == SubSeq(values, start + 1, i + 1)
        x == values[i + 1]
    IN IF Len(window) < min_window
       THEN AnomalyResult(FALSE, 0, x, x, "low")
       ELSE LET st == BaselineStats(window_baseline(window))
                is_anomaly == ZExceeds(x, st, anomaly_threshold)
                severity == IF ZExceeds(x, st, severity_high) THEN "high"
                            ELSE IF ZExceeds(x, st, severity_medium) THEN "medium"
                            ELSE "low"
            IN AnomalyResult(is_anomaly, ZScoreRounded(x, st), MeanRounded(st), x,
                             IF is_anomaly THEN severity ELSE "low")

\* OccupancyAnalyzer.detect_anomalies(values, window_size).
detect_anomalies(values, window_size) ==
    [k \in 1..Len(values) |-> detect_at(values, window_size, k - 1)]

\* The calls of detect_anomalies to be made, and a call returning.
AnomalyCalls ==
    { [fn |-> "detect_anomalies", values |-> values, window_size |-> w,
       done |-> FALSE, result |-> <<>>] : values \in AnomalySeries, w \in WindowSizes }

detect_anomalies_call ==
    /\ ml.fn = "detect_anomalies" /\ ~ml.done
    /\ ml' = [ml EXCEPT !.done = TRUE,
                        !.result = detect_anomalies(ml.values, ml.window_size)]
    /\ UNCHANGED <<storeVars, hubVars>>

AnomalyNext == detect_anomalies_call

\* -------------------------------------- OccupancyAnalyzer.estimate_arrival_rate
\* Timestamps are whole seconds.  Rates are kept as round() leaves them:
\* lambda in units of 1e-4, expected_per_hour and mean_inter_arrival_min in
\* units of 1e-2; std_dev = sqrt(lambda_rate) is kept as the fraction under
\* the root.
StampValues == {0, 30, 300, 600}
StampLists == UNION { [1..n -> StampValues] : n \in 0..MaxStamps }

\* sorted(event_timestamps).
RECURSIVE insert_sorted(_, _)
insert_sorted(seq, x) ==
    IF seq = <<>> THEN <<x>>
    ELSE IF x <= seq[1] THEN <<x>> \o seq
    ELSE <<seq[1]>> \o insert_sorted(Tail(seq), x)
RECURSIVE sorted(_)
sorted(seq) ==
    IF seq = <<>> THEN <<>> ELSE insert_sorted(sorted(Tail(seq)), seq[1])

ZeroRate ==
    [lambda |-> 0, expected_per_hour |-> 0, std_dev |-> [num |-> 0, den |-> 1]]

\* OccupancyAnalyzer.estimate_arrival_rate(event_timestamps).
estimate_arrival_rate(event_timestamps) ==
    IF Len(event_timestamps) < 2 THEN ZeroRate
    ELSE LET sorted_times == sorted(event_timestamps)
             n == Len(sorted_times)
             inter_arrivals == [i \in 1..(n - 1) |-> sorted_times[i + 1] - sorted_times[i]]
         IN IF inter_arrivals = <<>> \/ SeqSum(inter_arrivals) = 0
            THEN \* np.mean(inter_arrivals) == 0
                 ZeroRate
            ELSE LET elapsed == sorted_times[n] - sorted_times[1]
                     \* max(total_time_hours, 1 / 60), in seconds
                     total_time == Max(elapsed, 60)
                 IN [lambda |-> RoundHalfEven(n * 3600 * 10000, total_time),
                     expected_per_hour |-> RoundHalfEven(n * 3600 * 100, total_time),
                     std_dev |-> [num |-> n * 3600, den |-> total_time],
                     mean_inter_arrival_min |->
                         RoundHalfEven(SeqSum(inter_arrivals) * 100, 60 * (n - 1))]

RateCalls ==
    { [fn |-> "estimate_arrival_rate", event_timestamps |-> ts,
       done |-> FALSE, result |-> <<>>] : ts \in StampLists }

estimate_arrival_rate_call ==
    /\ ml.fn = "estimate_arrival_rate" /\ ~ml.done
    /\ ml' = [ml EXCEPT !.done = TRUE,
                        !.result = estimate_arrival_rate(ml.event_timestamps)]
    /\ UNCHANGED <<storeVars, hubVars>>

RateNext == estimate_arrival_rate_call

\* ----------------------------------------- OccupancyAnalyzer.forecast_occupancy
\* Rates are whole percents; the forecast lists hold what round(., 2) leaves,
\* in hundredths of a percent; a timestamp is its hour of the day.
\* if len(historical_rates) < 24: the flat forecast.
min_history == 24

RateValues == {0 - 5, 0, 60, 100, 120}
\* Histories too short for the seasonal forecast.
ShortHistories == UNION { [1..n -> RateValues] : n \in 0..MaxRates }
\* Histories of min_history hourly rates: a, then b for the last k hours.
TailLengths == {0, 3}
LongHistories ==
    { [i \in 1..min_history |-> IF i <= min_history - k THEN a ELSE b] :
         a \in RateValues, b \in RateValues, k \in TailLengths }
\* Their timestamps: sample i falls in hour i mod period.
HourPeriods == {12, 24}
NowHours == {11, 23}
Horizons == 0..MaxHorizon

ForecastResult(timestamps, predicted, lower, upper) ==
    [timestamps |-> timestamps, predicted_occupancy |-> predicted,
     confidence_lower |-> lower, confidence_upper |-> upper]

\* A flat forecast that clips the predicted value as it clips the bounds.
flat_forecast_clipped(historical_rates, horizon_hours, now_hour) ==
    LET current_rate == IF historical_rates # <<>>
                        THEN historical_rates[Len(historical_rates)] ELSE 50
    IN ForecastResult([i \in 1..horizon_hours |-> (now_hour + i - 1) % 24],
                      [i \in 1..horizon_hours |-> Max(0, Min(100, current_rate)) * 100],
                      [i \in 1..horizon_hours |-> Max(0, current_rate - 15) * 100],
                      [i \in 1..horizon_hours |-> Min(100, current_rate + 15) * 100])

\* The flat forecast of the short-history branch.
flat_forecast(historical_rates, horizon_hours, now_hour) ==
    LET current_rate == IF historical_rates # <<>>
                        THEN historical_rates[Len(historical_rates)] ELSE 50
    IN ForecastResult([i \in 1..horizon_hours |-> (now_hour + i - 1) % 24],
                      [i \in 1..horizon_hours |-> current_rate * 100],
                      [i \in 1..horizon_hours |-> Max(0, current_rate - 15) * 100],
                      [i \in 1..horizon_hours |-> Min(100, current_rate + 15) * 100])

\* hourly_avg[hour] before it is averaged: the rates whose timestamp has
\* that hour, in order.
RECURSIVE hourly_rates(_, _, _)
hourly_rates(rates, hours, hour) ==
    IF rates = <<>> THEN <<>>
    ELSE IF hours[1] = hour
    THEN <<rates[1]>> \o hourly_rates(Tail(rates), Tail(hours), hour)
    ELSE hourly_rates(Tail(rates), Tail(hours), hour)

\* hourly_avg.get(hour, 50.0) and hourly_std.get(hour, 10.0) as fractions:
\* np.mean(values), and np.std(values) if len(values) > 1 else 10.0 (the
\* square root is exact for the histories above).
hourly_avg(values) ==
    IF values = <<>> THEN [num |-> 50, den |-> 1]
    ELSE [num |-> SeqSum(values), den |-> Len(values)]
hourly_std(values) ==
    IF Len(values) <= 1 THEN [num |-> 10, den |-> 1]
    ELSE [num |-> isqrt(Len(values) * SeqSumSq(values) - SeqSum(values) * SeqSum(values)),
          den |-> Len(values)]

\* np.polyfit(x, recent, 1)[0] for the last 6 rates, times 35:
\* sum((2 x - 5) * y) over x = 0..5.
slope35(rates) ==
    LET recent == SubSeq(rates, Len(rates) - 5, Len(rates))
    IN SeqSum([j \in 1..6 |-> (2 * (j - 1) - 5) * recent[j]])

\* One step of the forecast loop, i from 0.
forecast_step(rates, hours, now_hour, i) ==
    LET hour == (now_hour + i + 1) % 24
        values == hourly_rates(rates, hours, hour)
        baseline == hourly_avg(values)
        std == hourly_std(values)
        \* baseline + slope * (i + 1) * 0.5, over den = 70 * baseline.den
        den == 70 * baseline.den
        raw == 70 * baseline.num + baseline.den * slope35(rates) * (i + 1)
        \* np.clip(., 0, 100)
        predicted == Max(0, Min(100 * den, raw))
        \* predicted -/+ std * 1.96, over den * std.den * 100
        width == std.num * 196 * den
        low == Max(0, predicted * std.den * 100 - width)
        high == Min(100 * den * std.den * 100, predicted * std.den * 100 + width)
    IN [hour |-> hour,
        predicted |-> RoundHalfEven(predicted * 100, den),
        lower |-> RoundHalfEven(low, den * std.den),
        upper |-> RoundHalfEven(high, den * std.den)]

\* OccupancyAnalyzer.forecast_occupancy(historical_rates, timestamps,
\* horizon_hours), called when the clock shows now_hour.
forecast_occupancy(historical_rates, hours, horizon_hours, now_hour) ==
    IF Len(historical_rates) < min_history
    THEN flat_forecast(historical_rates, horizon_hours, now_hour)
    ELSE LET step(i) == forecast_step(historical_rates, hours, now_hour, i - 1)
         IN ForecastResult([i \in 1..horizon_hours |-> step(i).hour],
                           [i \in 1..horizon_hours |-> step(i).predicted],
                           [i \in 1..horizon_hours |-> step(i).lower],
                           [i \in 1..horizon_hours |-> step(i).upper])

ForecastCalls ==
    { [fn |-> "forecast_occupancy", historical_rates |-> rates,
       hours |-> [i \in 1..Len(rates) |-> i % period], horizon_hours |-> h,
       now_hour |-> n, done |-> FALSE, result |-> <<>>] :
         rates \in ShortHistories \cup LongHistories, period \in HourPeriods,
         h \in Horizons, n \in NowHours }

forecast_occupancy_call ==
    /\ ml.fn = "forecast_occupancy" /\ ~ml.done
    /\ ml' = [ml EXCEPT !.done = TRUE,
                        !.result = forecast_occupancy(ml.historical_rates, ml.hours,
                                                      ml.horizon_hours, ml.now_hour)]
    /\ UNCHANGED <<storeVars, hubVars>>

ForecastNext == forecast_occupancy_call

\* ----------------------------------------- OccupancyAnalyzer.find_peak_hours
\* Rates are whole percents, a timestamp is its hour of the day, an average
\* is the fraction sum / n, and avg_occupancy_rate is in hundredths.
PeakRates == {40, 80, 85}
PeakHours == {9, 17, 23}
PeakSamples == { [rate |-> r, hour |-> h] : r \in PeakRates, h \in PeakHours }
\* Hourly samples from hour start on: 85 in hours 9-11, 80 in hours 17-19,
\* 40 elsewhere.
DayProfile(start, n) ==
    [i \in 1..n |->
        LET h == (start + i - 1) % 24
        IN [rate |-> IF h \in 9..11 THEN 85 ELSE IF h \in 17..19 THEN 80 ELSE 40,
            hour |-> h]]
PeakInputs ==
    UNION { [1..n -> PeakSamples] : n \in 0..MaxSamples }
      \cup { DayProfile(start, 48) : start \in {0, 10} }
TopNs == 0..MaxTopN

\* hourly_data after the loop: one entry per hour in the order the hours
\* first appear (a dict keeps insertion order), each with its rates.
RECURSIVE hourly_data(_)
hourly_data(samples) ==
    IF samples = <<>> THEN <<>>
    ELSE LET n == Len(samples)
             before == hourly_data(SubSeq(samples, 1, n - 1))
             x == samples[n]
         IN IF \E k \in DOMAIN before : before[k].hour = x.hour
            THEN [k \in DOMAIN before |->
                    IF before[k].hour = x.hour
                    THEN [before[k] EXCEPT !.values = Append(@, x.rate)]
                    ELSE before[k]]
            ELSE Append(before, [hour |-> x.hour, values |-> <<x.rate>>])

\* hourly_averages: np.mean(values) per hour.
hourly_averages(data) ==
    [k \in DOMAIN data |->
        [hour |-> data[k].hour, sum |-> SeqSum(data[k].values),
         n |-> Len(data[k].values)]]

\* a.sum / a.n > b.sum / b.n
AvgGreater(a, b) == a.sum * b.n > b.sum * a.n

\* sorted without reverse=True: ascending averages, ties in dict order.
RECURSIVE sorted_hours_ascending(_)
sorted_hours_ascending(averages) ==
    IF averages = <<>> THEN <<>>
    ELSE LET n == Len(averages)
             done == sorted_hours_ascending(SubSeq(averages, 1, n - 1))
             x == averages[n]
             pos == Cardinality({ k \in DOMAIN done : ~AvgGreater(done[k], x) })
         IN SubSeq(done, 1, pos) \o <<x>> \o SubSeq(done, pos + 1, Len(done))

\* sorted(hourly_averages.items(), key=avg, reverse=True): descending
\* averages; the sort is stable, so equal averages keep their dict order.
RECURSIVE sorted_hours(_)
sorted_hours(averages) ==
    IF averages = <<>> THEN <<>>
    ELSE LET n == Len(averages)
             done == sorted_hours(SubSeq(averages, 1, n - 1))
             x == averages[n]
             pos == Cardinality({ k \in DOMAIN done : ~AvgGreater(x, done[k]) })
         IN SubSeq(done, 1, pos) \o <<x>> \o SubSeq(done, pos + 1, Len(done))

\* One entry of the result: the label holds the two hours it prints.
PeakEntry(a) ==
    [hour |-> a.hour, avg_occupancy_rate |-> RoundHalfEven(a.sum * 100, a.n),
     label |-> <<a.hour, (a.hour + 1) % 24>>]

\* OccupancyAnalyzer.find_peak_hours(rates, timestamps, top_n), top_n >= 0.
find_peak_hours(samples, top_n) ==
    LET ranked == sorted_hours(hourly_averages(hourly_data(samples)))
        top == SubSeq(ranked, 1, Min(top_n, Len(ranked)))
    IN [k \in DOMAIN top |-> PeakEntry(top[k])]

PeakCalls ==
    { [fn |-> "find_peak_hours", samples |-> x, top_n |-> t, done |-> FALSE,
       result |-> <<>>] : x \in PeakInputs, t \in TopNs }

find_peak_hours_call ==
    /\ ml.fn = "find_peak_hours" /\ ~ml.done
    /\ ml' = [ml EXCEPT !.done = TRUE,
                        !.result = find_peak_hours(ml.samples, ml.top_n)]
    /\ UNCHANGED <<storeVars, hubVars>>

PeakNext == find_peak_hours_call

\* ------------------------------------- the module-level analyzer, many calls
\* analyzer = OccupancyAnalyzer(): the configuration it holds.
AnalyzerConfig == [ema_alpha |-> ema_alpha, anomaly_threshold |-> anomaly_threshold]

\* datetime.now(timezone.utc).hour, a tick of the clock being an hour.
NowHour == now % 24

\* A day of hourly rates: 80 in hour 1, 40 in every other hour.
SessionHistory == [i \in 1..min_history |-> IF i = 1 THEN 80 ELSE 40]
SessionHours == [i \in 1..min_history |-> i % 24]

\* The calls a session makes, each with its arguments.
SessionCalls ==
    { [fn |-> "compute_ema", data |-> <<0, 10>>, alpha |-> <<5>>],
      [fn |-> "detect_anomalies", values |-> <<0, 0, 0, 5>>, window_size |-> 2],
      [fn |-> "estimate_arrival_rate", event_timestamps |-> <<0, 300>>],
      [fn |-> "forecast_occupancy", historical_rates |-> <<60>>, hours |-> <<1>>,
       horizon_hours |-> 1],
      [fn |-> "forecast_occupancy", historical_rates |-> SessionHistory,
       hours |-> SessionHours, horizon_hours |-> 1],
      [fn |-> "find_peak_hours",
       samples |-> <<[rate |-> 40, hour |-> 9], [rate |-> 85, hour |-> 17]>>,
       top_n |-> 1] }

\* What the call returns when the clock shows hour.
CallResult(c, hour) ==
    CASE c.fn = "compute_ema" -> compute_ema(c.data, c.alpha)
      [] c.fn = "detect_anomalies" -> detect_anomalies(c.values, c.window_size)
      [] c.fn = "estimate_arrival_rate" -> estimate_arrival_rate(c.event_timestamps)
      [] c.fn = "forecast_occupancy" ->
            forecast_occupancy(c.historical_rates, c.hours, c.horizon_hours, hour)
      [] c.fn = "find_peak_hours" -> find_peak_hours(c.samples, c.top_n)

\* One more call on the shared analyzer: no method assigns to self.
analyzer_call(c) ==
    /\ ml.fn = "session"
    /\ Len(ml.log) < MaxCalls
    /\ ml' = [ml EXCEPT !.log = Append(@, [call |-> c, at |-> now,
                                           result |-> CallResult(c, NowHour)])]
    /\ UNCHANGED <<storeVars, hubVars>>

SessionNext ==
    \/ \E c \in SessionCalls : analyzer_call(c)
    \/ tick

Next == StoreNext

Spec == Init /\ [][Next]_vars

\* POST /events requests only, one at a time.
EventsNext == \E z \in ZoneIdInputs, k \in EventTypeInputs : create_event(z, k)
SpecEvents == Init /\ [][EventsNext]_vars

\* Overlapping POST /events requests only.
SpecConc == Init /\ [][ConcNext]_vars

\* The WebSocket hub only; the tables stay as seeded.
InitHub == Init /\ zones = <<>>
SpecHub == InitHub /\ [][HubNext]_vars
\* The snapshots of MaxZones zones of MaxSpots spots, seeded empty.
InitSnap ==
    Init /\ Len(zones) = MaxZones
         /\ \A i \in DOMAIN zones : zones[i] = ParkingZone(MaxSpots, 0)
SpecSnap == InitSnap /\ [][SnapNext]_vars
\* The analyzer is stateless: its calls are checked with empty tables.
InitAnalyzer == Init /\ zones = <<>>
SpecEma == InitAnalyzer /\ [][EmaNext]_vars
InitAnomaly == InitServer /\ zones = <<>> /\ ml \in AnomalyCalls
SpecAnomaly == InitAnomaly /\ [][AnomalyNext]_vars
InitRate == InitServer /\ zones = <<>> /\ ml \in RateCalls
SpecRate == InitRate /\ [][RateNext]_vars
InitForecast == InitServer /\ zones = <<>> /\ ml \in ForecastCalls
SpecForecast == InitForecast /\ [][ForecastNext]_vars
InitPeak == InitServer /\ zones = <<>> /\ ml \in PeakCalls
SpecPeak == InitPeak /\ [][PeakNext]_vars
InitSession ==
    /\ InitServer /\ zones = <<>>
    /\ ml = [fn |-> "session", config |-> AnalyzerConfig, log |-> <<>>]
SpecSession == InitSession /\ [][SessionNext]_vars
\* The hub with sockets that may stop reading for good: a send_json to one of
\* Unresponsive may never complete while its connection is open; every other
\* send in progress completes (or raises) in the end.
Unresponsive == {1}
ResponsiveSendDone ==
    \E ok \in BOOLEAN :
       /\ send_done(ok)
       /\ bc.current \notin Unresponsive \/ hs[bc.current] \in {"ended", "crashed"}
SpecStall == InitHub /\ [][HubNext]_vars /\ WF_vars(ResponsiveSendDone)
\* The hub next to the ingestion path: one zone of MaxSpots spots with one
\* spot taken, entries and exits on it arriving while sockets come and go.
InitApp == Init /\ zones = <<ParkingZone(MaxSpots, 1)>>
AppNext ==
    \/ HubNext
    \/ \E k \in {"entry", "exit"} : create_event(1, k)
SpecApp == InitApp /\ [][AppNext]_vars
\* Every operation of the API that writes a table.
LogNext ==
    \/ StoreNext
    \/ \E z \in ZoneIdInputs : delete_zone(z)
SpecLog == Init /\ [][LogNext]_vars
SpecFeed == InitHub /\ [][FeedNext]_vars

\* ===================================================================
\* Properties
\* ===================================================================
WithinBounds(zone) ==
    0 <= zone.occupied_spots /\ zone.occupied_spots <= zone.total_spots

\* A step that records an event (a successful record_event), and the event.
Recorded == Len(events') = Len(events) + 1
RecordedEvent == events'[Len(events')]

\* C1: starting from zones with 0 <= occupied_spots <= total_spots, every
\* successful record_event (entry or exit, on any zone) leaves every zone
\* that was within 0 <= occupied_spots <= total_spots within it.
C1_RecordEventKeepsBounds ==
    [][Recorded =>
         \A i \in DOMAIN zones :
            WithinBounds(zones[i]) => WithinBounds(zones'[i])]_vars

\* An entry was recorded on a zone that is now full, or an exit on a zone that
\* is now empty, after two events.
C1_Witness ==
    /\ Len(events) = 2
    /\ last = Response("create_event", 201)
    /\ \/ /\ events[2].event_type = "entry"
          /\ zones[events[2].zone_id].occupied_spots = zones[events[2].zone_id].total_spots
       \/ /\ events[2].event_type = "exit"
          /\ zones[events[2].zone_id].occupied_spots = 0

\* C2: a recorded entry on a zone with occupied_spots = total_spots leaves it
\* at total_spots, a recorded exit on a zone with occupied_spots = 0 leaves it
\* at 0; in every other case an entry raises occupied_spots by exactly 1 and
\* an exit lowers it by exactly 1; the request succeeds (201) in all cases.
C2_ClampOrStepByOne ==
    [][Recorded =>
         LET z == RecordedEvent.zone_id
             before == zones[z].occupied_spots
             after == zones'[z].occupied_spots
         IN /\ last' = Response("create_event", 201)
            /\ RecordedEvent.event_type = "entry" =>
                  after = IF before = zones[z].total_spots THEN before ELSE before + 1
            /\ RecordedEvent.event_type = "exit" =>
                  after = IF before = 0 THEN 0 ELSE before - 1]_vars

\* C3: create_event for a zone id that does not exist answers 400 and changes
\* neither table.
C3_UnknownZoneRejected ==
    [][\A z \in ZoneIdInputs, k \in {"entry", "exit"} :
          (~ZoneExists(zones, z) /\ create_event(z, k)) =>
             /\ last' = Response("create_event", 400)
             /\ zones' = zones
             /\ events' = events]_vars

\* A request was answered 400 while a zone exists and an event is recorded.
C3_Witness ==
    /\ last = Response("create_event", 400)
    /\ Len(zones) >= 1
    /\ Len(events) >= 1

\* C4: a request whose event_type is neither entry nor exit is rejected (422)
\* and changes neither table; no such event is ever in the events table.
C4_InvalidKindRejected ==
    [][/\ \A z \in ZoneIdInputs, k \in EventTypeInputs \ {"entry", "exit"} :
             create_event(z, k) =>
                /\ last' = Response("create_event", 422)
                /\ zones' = zones
                /\ events' = events
       /\ \A i \in DOMAIN events' : events'[i].event_type \in {"entry", "exit"}]_vars

\* A request was answered 422 while a zone exists.
C4_Witness ==
    /\ last = Response("create_event", 422)
    /\ Len(zones) >= 1

\* C5: a step that records an event hands manager.broadcast the zone_update
\* message with the zone's post-update occupied_spots, total_spots and rate
\* (the event message following it).
C5_RecordedEventIsPublished ==
    [][Recorded =>
         LET z == RecordedEvent.zone_id
         IN /\ bc' # bc
            /\ bc'.message \in
                 { ZoneUpdateMessage(z, zones'[z].occupied_spots, zones'[z].total_spots),
                   EventMessage(RecordedEvent.event_type, z, "none") }]_vars

\* C6: once all overlapping requests are done, a zone on which only entries
\* were recorded, k of them, holds min(o + k, total_spots), o being the
\* occupied_spots it started with.
C6_NoLostEntry ==
    (\A s \in Sessions : sess[s].pc = "idle") =>
       \A z \in DOMAIN zones :
          (\A i \in DOMAIN events :
              events[i].zone_id = z /\ events[i].event_type = "entry") =>
             zones[z].occupied_spots =
                Min(seeded[z] + Len(events), zones[z].total_spots)

\* C7: every zone satisfies 0 <= occupied_spots <= total_spots in every
\* reachable state, whatever operation changed it.
C7_ZoneInvariant == \A i \in DOMAIN zones : WithinBounds(zones[i])

\* C8: a broadcast that ends has returned normally, every subscriber that was
\* in the live set when it was called and is still live has received the
\* message, and the live set has lost exactly the subscribers whose send failed.
C8_BroadcastDeliversAndPrunes ==
    [][(bc.pc = "sending" /\ bc'.pc = "idle") =>
          /\ bc'.outcome = "returned"
          /\ (bc'.live \cap active_connections') \subseteq bc'.delivered
          /\ active_connections' = active_connections \ bc'.dead]_vars

\* C9: the step that takes a handler past manager.connect puts its socket in
\* the live set; the step after it sends the connected message to that socket;
\* a connected message is never sent to any socket but the one that has just
\* connected.
C9_ConnectAddsAndConfirms ==
    [][/\ \A w \in WebSockets :
             /\ (hs[w] = "new" /\ hs'[w] # "new") =>
                   (hs'[w] = "connected" /\ w \in active_connections')
             /\ (hs[w] = "connected" /\ hs'[w] # "connected") =>
                   /\ hs'[w] = "listening"
                   /\ wire'.to = w /\ wire'.msg = ConnectedMessage
       /\ wire'.msg = ConnectedMessage => hs[wire'.to] = "connected"]_vars

\* A second subscriber has just been confirmed while the first one listens.
C9_Witness ==
    /\ wire = Send(2, ConnectedMessage, TRUE)
    /\ hs[1] = "listening" /\ hs[2] = "listening"
    /\ active_connections = {1, 2}

\* C10: disconnect never raises and removes exactly the given socket, whether
\* or not the socket is in the live set; called again it changes nothing; a
\* handler that ends does so through disconnect, without an error.
C10_DisconnectIdempotent ==
    [][/\ \A w \in WebSockets :
             LET r == manager_disconnect(active_connections, w)
             IN /\ ~r.raised
                /\ r.set = active_connections \ {w}
                /\ manager_disconnect(r.set, w) = [set |-> r.set, raised |-> FALSE]
       /\ \A w \in WebSockets :
             (hs[w] = "listening" /\ hs'[w] # "listening") =>
                (hs'[w] = "ended" /\ active_connections' = active_connections \ {w})]_vars

\* A handler ended (disconnect) on a socket that a broadcast had pruned after
\* a failed send, while the other subscriber stays live.
C10_Witness ==
    /\ hs[1] = "ended" /\ 1 \in bc.dead /\ bc.outcome = "returned"
    /\ active_connections = {2}

\* A step in which the wait of w's handler for an inbound message times out.
TimesOut(w) == \E ok \in BOOLEAN : heartbeat(w, ok)

\* C11: a subscribe request with zone list Z makes Z the zone_ids of that
\* subscriber's handler (no other handler's list changes) and sends exactly
\* one message in that step: a subscribed acknowledgement carrying Z, to that
\* subscriber; no other step sends a subscribed message.
C11_SubscribeSetsAndAcks ==
    [][/\ \A w \in WebSockets, zs \in ZoneLists, ok \in BOOLEAN :
            receive(w, "subscribe", zs, ok) =>
               /\ zone_ids'[w] = zs
               /\ \A v \in WebSockets \ {w} : zone_ids'[v] = zone_ids[v]
               /\ wire'.to = w
               /\ wire'.msg.type = "subscribed"
               /\ wire'.msg.data.zones = zs
       /\ (wire'.msg.type = "subscribed" /\ wire' # wire) =>
              /\ hs[wire'.to] = "listening"
              /\ zone_ids'[wire'.to] = wire'.msg.data.zones
       /\ (zone_ids' # zone_ids) => wire'.msg.type = "subscribed"
      ]_vars

\* Subscriber 2 has just been acknowledged for the list <<1>>, which is now
\* its zone_ids, while subscriber 1 (listening) has none.
C11_Witness ==
    /\ wire = Send(2, Envelope("subscribed", [zones |-> <<1>>]), TRUE)
    /\ zone_ids[2] = <<1>>
    /\ zone_ids[1] = <<>>
    /\ hs[1] = "listening"
    /\ 2 \in active_connections

\* C12 as stated: at every idle timeout of a listening subscriber one
\* heartbeat is sent, to that subscriber only, the subscriber stays in the
\* live set and its handler is waiting again.
C12_HeartbeatKeepsSubscriber ==
    [][\A w \in WebSockets :
          TimesOut(w) =>
             /\ wire'.to = w
             /\ wire'.msg.type = "heartbeat"
             /\ (w \in active_connections => w \in active_connections')
             /\ hs'[w] = "listening"
      ]_vars

\* C12 amended: at every idle timeout of a listening subscriber one heartbeat
\* send is made, to that subscriber only, and its handler is waiting again
\* (so a further timeout sends a further heartbeat); the live set is unchanged
\* when the send succeeds, and loses exactly that subscriber when it fails.
C12_HeartbeatUnlessSendFails ==
    [][\A w \in WebSockets :
          TimesOut(w) =>
             /\ wire'.to = w
             /\ wire'.msg.type = "heartbeat"
             /\ hs'[w] = "listening"
             /\ wire'.ok => active_connections' = active_connections
             /\ ~wire'.ok => active_connections' = active_connections \ {w}
      ]_vars

\* Subscriber 1's heartbeat send has just failed: it is out of the live set
\* and its handler is waiting again; subscriber 2 is untouched.
C12_Witness ==
    /\ wire = Send(1, HeartbeatMessage, FALSE)
    /\ hs[1] = "listening"
    /\ active_connections = {2}
    /\ hs[2] = "listening"

\* The rows a step appends to occupancy_snapshots.
Appended == SubSeq(snapshots', Len(snapshots) + 1, Len(snapshots'))

\* r is occupied / total * 100 rounded to two decimals (in hundredths of a
\* percent), or 0 for a zone of no spots.
IsRateOf(r, occupied, total) ==
    IF total = 0 THEN r = 0
    ELSE LET diff == r * total - occupied * 10000
             mag == IF diff >= 0 THEN diff ELSE 0 - diff
             abstotal == IF total >= 0 THEN total ELSE 0 - total
         IN 2 * mag <= abstotal

\* C13: take_occupancy_snapshot appends exactly one snapshot for each active
\* zone and none for an inactive one; each carries the zone's occupied_spots
\* and total_spots of that moment and the occupancy rate they give; no zone
\* and no earlier snapshot changes, nothing else writes the table, and the
\* timestamps of a zone's snapshots never decrease in append order.
C13_SnapshotPerActiveZone ==
    [][/\ take_occupancy_snapshot =>
            /\ \A z \in DOMAIN zones :
                  Cardinality({k \in DOMAIN Appended : Appended[k].zone_id = z})
                     = IF is_active[z] THEN 1 ELSE 0
            /\ \A k \in DOMAIN Appended :
                  LET a == Appended[k]
                      zone == zones[a.zone_id]
                  IN /\ a.occupied_spots = zone.occupied_spots
                     /\ a.total_spots = zone.total_spots
                     /\ IsRateOf(a.occupancy_rate, zone.occupied_spots, zone.total_spots)
            /\ zones' = zones
            /\ is_active' = is_active
       /\ Len(snapshots') >= Len(snapshots)
       /\ SubSeq(snapshots', 1, Len(snapshots)) = snapshots
       /\ (snapshots' # snapshots) => take_occupancy_snapshot
       /\ \A i, j \in DOMAIN snapshots' :
             (i < j /\ snapshots'[i].zone_id = snapshots'[j].zone_id)
                => snapshots'[i].timestamp <= snapshots'[j].timestamp
      ]_vars

\* Two snapshots were taken: the first of both zones, empty, at tick 0; the
\* second, after an entry on zone 1 and a tick, of zone 1 alone because
\* zone 2 had been switched off.
C13_Witness ==
    /\ Len(snapshots) = 3
    /\ last = Response("take_occupancy_snapshot", 0)
    /\ snapshots[1].zone_id = 1 /\ snapshots[1].occupied_spots = 0
    /\ snapshots[1].timestamp = 0
    /\ snapshots[2].zone_id = 2
    /\ snapshots[3].zone_id = 1 /\ snapshots[3].occupied_spots = 1
    /\ snapshots[3].occupancy_rate > 0
    /\ snapshots[3].timestamp = 1
    /\ ~is_active[2]

\* The fraction f equals the number x / equals alpha * x + (1 - alpha) * prev,
\* alpha in tenths.
FracIs(f, x) == f.num = x * f.den
FracIsStep(f, a, x, prev) ==
    f.num * 10 * prev.den = (a * x * prev.den + (10 - a) * prev.num) * f.den

\* C14: for every non-empty input, compute_ema with alpha = 1 returns the
\* input unchanged and with alpha = 0 returns a series whose every element
\* is the first element of the input.
C14_EmaAlphaOneAndZero ==
    (ml.fn = "compute_ema" /\ ml.data # <<>>) =>
        /\ ml.alpha = <<10>> =>
              /\ Len(ml.result) = Len(ml.data)
              /\ \A t \in DOMAIN ml.data : FracIs(ml.result[t], ml.data[t])
        /\ ml.alpha = <<0>> =>
              /\ Len(ml.result) = Len(ml.data)
              /\ \A t \in DOMAIN ml.data : FracIs(ml.result[t], ml.data[1])

\* C15: compute_ema returns a series as long as its input, with
\* EMA[0] = x[0] and EMA[t] = alpha * x[t] + (1 - alpha) * EMA[t-1] for the
\* alpha passed, 0.3 when none is passed; an empty input gives an empty
\* output.
C15_EmaRecurrence ==
    ml.fn = "compute_ema" =>
        LET a == IF ml.alpha = <<>> THEN 3 ELSE ml.alpha[1]
        IN /\ Len(ml.result) = Len(ml.data)
           /\ ml.data # <<>> => FracIs(ml.result[1], ml.data[1])
           /\ \A t \in DOMAIN ml.data :
                 t >= 2 => FracIsStep(ml.result[t], a, ml.data[t], ml.result[t - 1])

\* The values before index i (from 0) that the claims name its baseline
\* window: x[max(0, i - windowSize)] .. x[i - 1].
PriorWindow(values, window_size, i) ==
    SubSeq(values, Max(0, i - window_size) + 1, i)

\* A finished call of detect_anomalies, and its indices (from 0).
AnomalyDone == ml.fn = "detect_anomalies" /\ ml.done
AnomalyIndices == 0..(Len(ml.values) - 1)

\* C16: detect_anomalies returns one result per value; the result for index
\* i is a function of x[i] and of x[max(0, i - windowSize)] .. x[i-1] alone;
\* with fewer than 2 such prior values it is the result is_anomaly false,
\* z_score 0, expected_value = actual_value = x[i], severity low.
C16_CausalWindow ==
    AnomalyDone =>
        /\ Len(ml.result) = Len(ml.values)
        /\ \A i \in AnomalyIndices :
              LET x == ml.values[i + 1]
                  prior == PriorWindow(ml.values, ml.window_size, i)
              IN IF Len(prior) < 2
                 THEN ml.result[i + 1] = AnomalyResult(FALSE, 0, x, x, "low")
                 ELSE LET st == BaselineStats(prior)
                          flagged == ZExceeds(x, st, 25)
                      IN ml.result[i + 1] =
                            AnomalyResult(flagged, ZScoreRounded(x, st), MeanRounded(st), x,
                                          IF ~flagged THEN "low"
                                          ELSE IF ZExceeds(x, st, 40) THEN "high"
                                          ELSE IF ZExceeds(x, st, 30) THEN "medium"
                                          ELSE "low")

\* With window size 2 the value 7 at index 0 is outside the baseline <<0, 0>>
\* of index 3, which is flagged against the mean 0; indices 0 and 1 have no
\* baseline.
C16_Witness ==
    /\ AnomalyDone
    /\ ml.values = <<7, 0, 0, 4>> /\ ml.window_size = 2
    /\ ml.result[4].is_anomaly /\ ml.result[4].expected_value = 0
    /\ ml.result[4].z_score = 40000
    /\ ml.result[2] = AnomalyResult(FALSE, 0, 0, 0, "low")

\* An index whose baseline window holds at least 2 values, all equal.
ConstantBaseline(i) ==
    LET prior == PriorWindow(ml.values, ml.window_size, i)
    IN Len(prior) >= 2 /\ \A k \in DOMAIN prior : prior[k] = prior[1]

\* C17 as stated: an index whose baseline window holds at least 2 values all
\* equal to c, with x[i] # c, is flagged, with a z-score of the sign of
\* x[i] - c and of magnitude above the threshold 2.5.
C17_ConstantBaselineFlagged ==
    AnomalyDone =>
        \A i \in AnomalyIndices :
            LET x == ml.values[i + 1]
                c == PriorWindow(ml.values, ml.window_size, i)[1]
                r == ml.result[i + 1]
            IN (ConstantBaseline(i) /\ x # c) =>
                  /\ r.is_anomaly
                  /\ (x > c) = (r.z_score > 0)
                  /\ Abs(r.z_score) > 25000

\* C17 amended: with such a baseline the z-score is (x[i] - c) / 1e-6 (the
\* floor of the standard deviation; no division error), of the sign of
\* x[i] - c; the index is flagged, with |z| above 2.5, exactly when x[i]
\* differs from c by more than 2.5e-6.
C17_ConstantBaselineFloor ==
    AnomalyDone =>
        /\ Len(ml.result) = Len(ml.values)
        /\ \A i \in AnomalyIndices :
            LET x == ml.values[i + 1]
                c == PriorWindow(ml.values, ml.window_size, i)[1]
                r == ml.result[i + 1]
            IN (ConstantBaseline(i) /\ x # c) =>
                  /\ r.z_score = (x - c) * 10000
                  /\ (x > c) = (r.z_score > 0)
                  /\ r.is_anomaly = (10 * Abs(x - c) > 25)
                  /\ r.is_anomaly => Abs(r.z_score) > 25000

\* Against the baseline <<4, 4>> the value 5 (1e-6 above) is not flagged and
\* the value 0 (4e-6 below) is, with a negative z-score.
C17_Witness ==
    /\ AnomalyDone
    /\ ml.values = <<4, 4, 5, 0>> /\ ml.window_size = 2
    /\ ~ml.result[3].is_anomaly /\ ml.result[3].z_score = 10000
    /\ ml.values[2] = 4
    /\ ml.window_size = 2 /\ ml.values[3] = 5

\* |z| > cut / 10 for the z-score of x against the values prior: the mean
\* and the standard deviation (floored at 1e-6, one unit) of prior.
AbsZOver(x, prior, cut) ==
    LET n == Len(prior)
        sum == SeqSum(prior)
        nvar == n * SeqSumSq(prior) - sum * sum
        d2 == IF nvar > n * n THEN nvar ELSE n * n
    IN 100 * (n * x - sum) * (n * x - sum) > cut * cut * d2

\* C18: in every result, is_anomaly holds exactly when |z| > 2.5; a flagged
\* result has severity high when |z| > 4, medium when 3 < |z| <= 4 and low
\* when 2.5 < |z| <= 3; a result that is not flagged has severity low (and
\* so has a result without a baseline, whose z is 0).
C18_ThresholdAndSeverity ==
    AnomalyDone =>
        \A i \in AnomalyIndices :
            LET x == ml.values[i + 1]
                prior == PriorWindow(ml.values, ml.window_size, i)
                r == ml.result[i + 1]
            IN IF Len(prior) < 2
               THEN ~r.is_anomaly /\ r.severity = "low" /\ r.z_score = 0
               ELSE /\ r.is_anomaly = AbsZOver(x, prior, 25)
                    /\ r.severity =
                          IF ~AbsZOver(x, prior, 25) THEN "low"
                          ELSE IF AbsZOver(x, prior, 40) THEN "high"
                          ELSE IF AbsZOver(x, prior, 30) THEN "medium"
                          ELSE "low"

\* Baseline <<0, 4>> (mean 2, deviation 2): 7 has z = 2.5 and is not flagged;
\* baseline <<4, 7>> (mean 5.5, deviation 1.5): 0 has z below -3 and is
\* flagged medium.
C18_Witness ==
    /\ AnomalyDone
    /\ ml.values = <<0, 4, 7, 0>> /\ ml.window_size = 2
    /\ ml.result[3].z_score = 25000 /\ ~ml.result[3].is_anomaly
    /\ ml.result[3].severity = "low"
    /\ ml.result[4].is_anomaly /\ ml.result[4].severity = "medium"
    /\ ml.result[4].z_score < 0 - 30000

\* The latest and the earliest of a non-empty list of timestamps.
Latest(ts) == CHOOSE x \in {ts[k] : k \in DOMAIN ts} : \A k \in DOMAIN ts : ts[k] <= x
Earliest(ts) == CHOOSE x \in {ts[k] : k \in DOMAIN ts} : \A k \in DOMAIN ts : ts[k] >= x

\* C19: for at least 2 timestamps estimate_arrival_rate reports
\* lambda = count / T (to 4 decimals) with T = max(latest - earliest, one
\* minute) in hours, also when all timestamps are identical; for fewer than 2
\* it reports lambda, expected_per_hour and std_dev 0.
C19_ArrivalRate ==
    (ml.fn = "estimate_arrival_rate" /\ ml.done) =>
        LET ts == ml.event_timestamps
            count == Len(ts)
        IN IF count < 2
           THEN /\ ml.result.lambda = 0
                /\ ml.result.expected_per_hour = 0
                /\ ml.result.std_dev.num = 0
           ELSE LET seconds == Max(Latest(ts) - Earliest(ts), 60)
                IN ml.result.lambda = RoundHalfEven(count * 3600 * 10000, seconds)

\* C20: every point of every forecast, of the short-history branch and of
\* the seasonal branch, for any rates, has lower <= predicted <= upper and
\* 0 <= predicted <= 100.
C20_ForecastWithinBounds ==
    (ml.fn = "forecast_occupancy" /\ ml.done) =>
        \A i \in DOMAIN ml.result.predicted_occupancy :
            /\ ml.result.confidence_lower[i] <= ml.result.predicted_occupancy[i]
            /\ ml.result.predicted_occupancy[i] <= ml.result.confidence_upper[i]
            /\ 0 <= ml.result.predicted_occupancy[i]
            /\ ml.result.predicted_occupancy[i] <= 10000

\* The forecast call made is finished and had fewer than min_history rates.
ShortForecastDone ==
    ml.fn = "forecast_occupancy" /\ ml.done /\ Len(ml.historical_rates) < min_history
\* The rate the flat forecast repeats, in percent.
FlatRate ==
    IF ml.historical_rates = <<>> THEN 50
    ELSE ml.historical_rates[Len(ml.historical_rates)]

\* C21: with fewer than 24 rates the forecast has exactly horizon_hours
\* points, every predicted value is the last input rate (50.0 without
\* input), every lower bound is max(0, rate - 15) and every upper bound is
\* min(100, rate + 15).
C21_FlatForecast ==
    ShortForecastDone =>
        /\ Len(ml.result.timestamps) = ml.horizon_hours
        /\ Len(ml.result.predicted_occupancy) = ml.horizon_hours
        /\ Len(ml.result.confidence_lower) = ml.horizon_hours
        /\ Len(ml.result.confidence_upper) = ml.horizon_hours
        /\ \A i \in 1..ml.horizon_hours :
              /\ ml.result.predicted_occupancy[i] = FlatRate * 100
              /\ ml.result.confidence_lower[i] =
                    (IF FlatRate - 15 < 0 THEN 0 ELSE FlatRate - 15) * 100
              /\ ml.result.confidence_upper[i] =
                    (IF FlatRate + 15 > 100 THEN 100 ELSE FlatRate + 15) * 100

C21_Witness ==
    /\ ShortForecastDone
    /\ ml.historical_rates # <<>>
    /\ FlatRate > 100
    /\ ml.horizon_hours = MaxHorizon
    /\ ml.result.confidence_upper[MaxHorizon] = 10000

PeakDone == ml.fn = "find_peak_hours" /\ ml.done
\* The hours of day in the input, and the rates of one hour, in input order.
InputHours == { ml.samples[i].hour : i \in DOMAIN ml.samples }
RECURSIVE RatesOf(_, _)
RatesOf(samples, h) ==
    IF samples = <<>> THEN <<>>
    ELSE (IF samples[1].hour = h THEN <<samples[1].rate>> ELSE <<>>)
            \o RatesOf(Tail(samples), h)
\* mean(h) >= mean(g)
MeanAtLeast(h, g) ==
    SeqSum(RatesOf(ml.samples, h)) * Len(RatesOf(ml.samples, g))
        >= SeqSum(RatesOf(ml.samples, g)) * Len(RatesOf(ml.samples, h))
ReturnedHours == { ml.result[k].hour : k \in DOMAIN ml.result }

C23_PureFunctions ==
    ml.fn = "session" =>
        /\ ml.config = AnalyzerConfig
        /\ \A i \in DOMAIN ml.log, j \in DOMAIN ml.log :
              ml.log[i].call = ml.log[j].call => ml.log[i].result = ml.log[j].result

\* C24: a broadcast during which another connection task changed the live
\* set (a connect or a disconnect while it was suspended in a send) still
\* returns without an error, and every subscriber that was live when it
\* started and is still live has been sent the message.
C24_BroadcastToleratesChange ==
    [][(bc.pc = "sending" /\ bc'.pc = "idle" /\ active_connections # bc.live) =>
          /\ bc'.outcome = "returned"
          /\ \A w \in bc.live \cap active_connections :
                w \in bc'.delivered \cup bc'.dead]_vars

\* C25: a subscriber whose send never completes does not stall a broadcast:
\* every broadcast in progress eventually returns to its caller.
C25_BroadcastEventuallyReturns == (bc.pc = "sending") ~> (bc.pc = "idle")

\* The step ends the handler of w: a disconnect, or an error in its loop.
HandlerEnds(w) == hs[w] = "listening" /\ hs'[w] \in {"ended", "crashed"}

\* C26: the step that ends one subscriber's handler removes that subscriber
\* from the live set and nothing else: every other subscriber's membership
\* and handler are as before, and no zone and no recorded event changes.
C26_DisconnectRemovesOnlyOne ==
    [][\A w \in WebSockets :
          HandlerEnds(w) =>
             /\ active_connections' = active_connections \ {w}
             /\ \A v \in WebSockets \ {w} : hs'[v] = hs[v]
             /\ zones' = zones
             /\ events' = events]_vars

C26_Witness ==
    /\ \E w \in WebSockets :
          /\ hs[w] = "ended"
          /\ w \notin active_connections
          /\ \E v \in active_connections : hs[v] = "listening"
    /\ events # <<>>

\* The occupancy of a zone seeded with occupied spots out of total after the
\* events of evs that are its own, applied in order with no other in between.
RECURSIVE OwnEventsAlone(_, _, _, _)
OwnEventsAlone(occupied, total, evs, z) ==
    IF evs = <<>> THEN occupied
    ELSE IF evs[1].zone_id = z
    THEN OwnEventsAlone(
            IF evs[1].event_type = "entry"
            THEN (IF occupied + 1 < total THEN occupied + 1 ELSE total)
            ELSE (IF occupied - 1 > 0 THEN occupied - 1 ELSE 0),
            total, Tail(evs), z)
    ELSE OwnEventsAlone(occupied, total, Tail(evs), z)

\* C27: a successful record_event on one zone leaves occupied_spots and
\* total_spots of every other zone unchanged, so after any interleaving of
\* events on different zones each zone holds the occupancy its own events
\* give when applied alone.
C27_OtherZonesUnchanged ==
    /\ [][Recorded =>
            \A z \in DOMAIN zones :
               z # RecordedEvent.zone_id => zones'[z] = zones[z]]_vars
    /\ [](\A z \in DOMAIN zones :
             zones[z].occupied_spots =
                OwnEventsAlone(seeded[z], zones[z].total_spots, events, z))

C27_Witness ==
    /\ Len(zones) >= 2
    /\ \E i \in DOMAIN events, j \in DOMAIN events :
          i < j /\ events[i].zone_id = 2 /\ events[j].zone_id = 1
    /\ zones[1].occupied_spots # seeded[1]
    /\ zones[2].occupied_spots # seeded[2]

\* The step answers a POST /events with 201: record_event succeeded.
RecordSucceeds ==
    last'.op = "create_event" /\ last'.status = 201 /\ vars' # vars
\* Recorded entries minus recorded exits of zone z.
RECURSIVE NetEntries(_, _)
NetEntries(evs, z) ==
    IF evs = <<>> THEN 0
    ELSE NetEntries(Tail(evs), z)
           + (IF evs[1].zone_id # z THEN 0
              ELSE IF evs[1].event_type = "entry" THEN 1 ELSE 0 - 1)

\* C28: no step modifies or removes a recorded event, and every successful
\* record_event appends exactly one event, also when the zone was full (an
\* entry) or empty (an exit) and its occupancy did not change.
C28_EventLogAppendOnly ==
    [][/\ Len(events') >= Len(events)
       /\ \A i \in DOMAIN events : events'[i] = events[i]
       /\ RecordSucceeds => Len(events') = Len(events) + 1]_vars

\* An event recorded on a zone it could not change: the log and the counter
\* of the zone disagree.
C28_Witness ==
    \E z \in DOMAIN zones :
       /\ \E i \in DOMAIN events : events[i].zone_id = z
       /\ zones[z].occupied_spots = seeded[z]
       /\ zones[z].occupied_spots = zones[z].total_spots
       /\ NetEntries(events, z) > 0
       /\ seeded[z] + NetEntries(events, z) # zones[z].occupied_spots

\* C29: every subscriber whose handler loop is running is in the live set,
\* and a heartbeat or subscribed acknowledgement that was sent went to a
\* subscriber of the live set: none is sent to a subscriber that a failed
\* send has removed.
C29_RunningHandlersAreLive ==
    /\ \A w \in WebSockets : hs[w] = "listening" => w \in active_connections
    /\ (wire.ok /\ wire.msg.type \in {"heartbeat", "subscribed"}) =>
          wire.to \in active_connections

\* C30: a received JSON object whose type is not subscribe changes nothing
\* (nothing is sent, the subscriber stays in the live set, its handler keeps
\* listening); received text that is not a JSON object ends the handler of
\* that subscriber and takes that subscriber, and no other, out of the live
\* set.
C30_UnknownIgnoredInvalidEnds ==
    [][\A w \in WebSockets, zs \in ZoneLists, ok \in BOOLEAN :
          /\ receive(w, "object", zs, ok) =>
                /\ wire' = NoSend
                /\ active_connections' = active_connections
                /\ hs' = hs
                /\ zone_ids' = zone_ids
          /\ receive(w, "invalid", zs, ok) =>
                /\ wire' = NoSend
                /\ hs'[w] = "ended"
                /\ active_connections' = active_connections \ {w}
                /\ \A v \in WebSockets \ {w} : hs'[v] = hs[v]]_vars

C30_Witness ==
    \E w \in WebSockets, v \in WebSockets :
       /\ hs[w] = "ended"
       /\ w \notin active_connections
       /\ wire = NoSend
       /\ hs[v] = "listening"
       /\ v \in active_connections
       /\ zone_ids[v] # <<>>
====
